---- MODULE Spec2Model ----
(***************************************************************************)
(* A model of utils/omit-needless-words.py: the job builder (main,          *)
(* create_dump_module_api_args, collect_frameworks), the dispatcher         *)
(* (multiprocessing.Pool.map over dump_module_api), the dump worker         *)
(* (dump_module_api, collect_submodules, output_command_result_to_file)     *)
(* and the two regular expressions the tool scrapes names with.             *)
(*                                                                          *)
(* Text is modelled as it is: a string is the tuple of its characters, so   *)
(* that prefix tests, regular-expression matches, '%'-formatting of paths   *)
(* and lexicographic sorting are computed on the characters.                *)
(*                                                                          *)
(* An external command either exits with some status or never exits. The    *)
(* exit status of 'mkdir -p' is ignored by the code; when it fails, the     *)
(* open() that follows raises in the worker.                                *)
(***************************************************************************)
EXTENDS Naturals, Sequences, FiniteSets

VARIABLES
    \* command line (argparse), fixed for a run
    sdks,           \* args.sdk: the list of SDK identifiers
    module,         \* args.module: << >> when -m is not given
    target,         \* args.target: "" when -t is not given
    processes,      \* the number of pool workers (args.jobs, or the cpu count)
    \* main()
    mainPc,         \* "build", "map", "done", "crashed"
    sdkIdx,         \* index in sdks of the next SDK of the loop of line 202
    jobs,           \* the list of job tuples built so far
    contrib,        \* per SDK handled: how many jobs it contributed
    queries,        \* per SDK handled: the discovery calls issued for it
    error,          \* the exception that ended main(), "" when none
    \* multiprocessing.Pool.map
    tasks,          \* the chunks of job indices, in task-queue order
    nextTask,       \* the index of the next chunk a worker will take
    numberLeft,     \* MapResult._number_left: chunks not yet reported
    mapFailed,      \* MapResult: a chunk reported an exception
    workers,        \* per worker process: what it is doing
    \* the effect of the jobs
    jobState,       \* per job: times started and finished, the files it
                    \* opened in order, failed commands, exception raised
    anomaliesLeft,  \* how many more external commands may misbehave
    \* collect_submodules' loop over the tool's output (lines 83-90)
    pPc, pModule, pLine, pCount, pSubmodules, pResult

cmdVars  == <<sdks, module, target, processes>>
mainVars == <<mainPc, sdkIdx, jobs, contrib, queries, error>>
poolVars == <<tasks, nextTask, numberLeft, mapFailed, workers>>
jobVars  == <<jobState, anomaliesLeft>>
parseVars == <<pPc, pModule, pLine, pCount, pSubmodules, pResult>>
vars == <<cmdVars, mainVars, poolVars, jobVars, parseVars>>

----------------------------------------------------------------------------
(* Bounds of the model. *)

\* the longest SDK list on the command line
MaxSdks == 2
\* the largest worker count
MaxProcesses == 2
\* the longest job list handed directly to the dispatcher
MaxJobs == 5
\* how many external commands of a run may exit non-zero, never exit, or
\* print a submodule list that is not empty
MaxAnomalies == 1
\* the job list and the worker count of the wedged-process scenario
PoolJobs == 9
PoolProcesses == 2
\* how many lines of tool output collect_submodules reads
MaxLines == 3

----------------------------------------------------------------------------
(* Characters and strings. *)

\* The characters the model uses, in code-point order (Python 2 compares
\* str byte by byte).
Chars ==
    <<"\t", " ", "#", "-", ".", "/",
      "0", "1", "2", "3", "4", "5", "6", "7", "8", "9", ";", "@",
      "A", "B", "C", "D", "E", "F", "G", "H", "I", "J", "K", "L", "M",
      "N", "O", "P", "Q", "R", "S", "T", "U", "V", "W", "X", "Y", "Z", "_",
      "a", "b", "c", "d", "e", "f", "g", "h", "i", "j", "k", "l", "m",
      "n", "o", "p", "q", "r", "s", "t", "u", "v", "w", "x", "y", "z">>

Code == [c \in {Chars[i] : i \in DOMAIN Chars} |->
            CHOOSE i \in DOMAIN Chars : Chars[i] = c]

\* the class [A-Za-z_0-9.] of both regular expressions
NameChars ==
    {Chars[i] : i \in DOMAIN Chars} \ {"\t", " ", "#", "-", "/", ";", "@"}

\* the class \s
SpaceChars == {" ", "\t"}

\* str.find(p) == 0
StartsWith(s, p) ==
    Len(p) <= Len(s) /\ SubSeq(s, 1, Len(p)) = p

\* the literal lit occurs in s at position i
LiteralAt(s, i, lit) ==
    i + Len(lit) - 1 <= Len(s) /\ SubSeq(s, i, i + Len(lit) - 1) = lit

\* str comparison: a < b
StrLess(a, b) ==
    \/ Len(a) < Len(b) /\ SubSeq(b, 1, Len(a)) = a
    \/ \E i \in 1..Len(a) :
          /\ i <= Len(b)
          /\ SubSeq(a, 1, i - 1) = SubSeq(b, 1, i - 1)
          /\ Code[a[i]] < Code[b[i]]

\* sorted(list(names))
RECURSIVE Sorted(_)
Sorted(names) ==
    IF names = {} THEN << >>
    ELSE LET least == CHOOSE n \in names :
                          \A o \in names \ {n} : StrLess(n, o)
         IN  <<least>> \o Sorted(names \ {least})

\* a greedy character class: the end of the longest run of characters of
\* class cls that starts at position i of s (i - 1 when there is none)
RECURSIVE RunEnd(_, _, _)
RunEnd(s, i, cls) ==
    IF i <= Len(s) /\ s[i] \in cls THEN RunEnd(s, i + 1, cls) ELSE i - 1

----------------------------------------------------------------------------
(* The static tables. *)

DEFAULT_TARGET_BASED_ON_SDK ==
    { <<<<"m", "a", "c", "o", "s", "x">>, "x86_64-apple-macosx10.11">>,
      <<<<"i", "p", "h", "o", "n", "e", "o", "s">>, "arm64-apple-ios9.0">>,
      <<<<"i", "p", "h", "o", "n", "e", "s", "i", "m", "u", "l", "a", "t", "o", "r">>, "x86_64-apple-ios9.0">>,
      <<<<"w", "a", "t", "c", "h", "o", "s">>, "armv7k-apple-watchos2.0">>,
      <<<<"w", "a", "t", "c", "h", "o", "s", ".", "s", "i", "m", "u", "l", "a", "t", "o", "r">>, "i386-apple-watchos2.0">>,
      <<<<"a", "p", "p", "l", "e", "t", "v", "o", "s">>, "arm64-apple-tvos9">>,
      <<<<"a", "p", "p", "l", "e", "t", "v", "o", "s", ".", "s", "i", "m", "u", "l", "a", "t", "o", "r">>, "x86_64-apple-tvos9">> }

SKIPPED_FRAMEWORKS ==
    { <<"C", "a", "l", "e", "n", "d", "a", "r", "S", "t", "o", "r", "e">>, <<"C", "o", "r", "e", "M", "I", "D", "I", "S", "e", "r", "v", "e", "r">>, <<"D", "r", "a", "w", "S", "p", "r", "o", "c", "k", "e", "t">>,
      <<"D", "V", "C", "o", "m", "p", "o", "n", "e", "n", "t", "G", "l", "u", "e">>, <<"I", "n", "s", "t", "a", "l", "l", "e", "r", "P", "l", "u", "g", "i", "n", "s">>, <<"I", "n", "s", "t", "a", "n", "t", "M", "e", "s", "s", "a", "g", "e">>,
      <<"J", "a", "v", "a", "F", "r", "a", "m", "e", "E", "m", "b", "e", "d", "d", "i", "n", "g">>, <<"J", "a", "v", "a", "V", "M">>, <<"K", "e", "r", "b", "e", "r", "o", "s">>, <<"K", "e", "r", "n", "e", "l">>, <<"L", "D", "A", "P">>,
      <<"M", "e", "s", "s", "a", "g", "e">>, <<"P", "C", "S", "C">>, <<"Q", "T", "K", "i", "t">>, <<"R", "u", "b", "y">>, <<"S", "y", "n", "c", "S", "e", "r", "v", "i", "c", "e", "s">>, <<"S", "y", "s", "t", "e", "m">>,
      <<"T", "k">>, <<"V", "i", "d", "e", "o", "D", "e", "c", "o", "d", "e", "A", "c", "c", "e", "l", "e", "r", "a", "t", "i", "o", "n">>, <<"v", "e", "c", "L", "i", "b">> }

\* sdk in DEFAULT_TARGET_BASED_ON_SDK
HasDefaultTarget(sdk) ==
    \E e \in DEFAULT_TARGET_BASED_ON_SDK : e[1] = sdk

\* DEFAULT_TARGET_BASED_ON_SDK[sdk], for a key of the table
DefaultTarget(sdk) ==
    (CHOOSE e \in DEFAULT_TARGET_BASED_ON_SDK : e[1] = sdk)[2]

pretty_sdk_name(sdk) ==
    IF StartsWith(sdk, <<"m", "a", "c", "o", "s", "x">>) THEN <<"O", "S", "X">>
    ELSE IF StartsWith(sdk, <<"i", "p", "h", "o", "n", "e", "o", "s">>) THEN <<"i", "O", "S">>
    ELSE IF StartsWith(sdk, <<"w", "a", "t", "c", "h", "o", "s">>) THEN <<"w", "a", "t", "c", "h", "O", "S">>
    ELSE IF StartsWith(sdk, <<"a", "p", "p", "l", "e", "t", "v", "o", "s">>) THEN <<"t", "v", "O", "S">>
    ELSE <<"u", "n", "k", "n", "o", "w", "n", "O", "S">>

----------------------------------------------------------------------------
(* The regular expressions. *)

\* One atom of the module name interpolated into the pattern of line 83:
\* '%s' is not escaped, so a '.' of the name is the wildcard.
ModuleAtomMatches(atom, c) ==
    atom = "." \/ atom = c

\* the interpolated module name matches s at position i
ModuleAt(s, i, mod) ==
    /\ i + Len(mod) - 1 <= Len(s)
    /\ \A k \in 1..Len(mod) : ModuleAtomMatches(mod[k], s[i + k - 1])

\* 'import\s+<module>\.([A-Za-z_0-9.]+)' with 'import' at position i and
\* \s+ taking n characters: the captured group, as a set of at most one name
ImportAt(line, i, n, mod) ==
    LET m == i + 6 + n            \* where the module name starts
        d == m + Len(mod)         \* where the '\.' is
    IN  IF /\ LiteralAt(line, i, <<"i", "m", "p", "o", "r", "t">>)
           /\ n >= 1
           /\ \A k \in (i + 6)..(m - 1) : k <= Len(line) /\ line[k] \in SpaceChars
           /\ ModuleAt(line, m, mod)
           /\ LiteralAt(line, d, <<".">>)
           /\ RunEnd(line, d + 1, NameChars) >= d + 1
        THEN {SubSeq(line, d + 1, RunEnd(line, d + 1, NameChars))}
        ELSE {}

\* \s+ is greedy: the longest run of spaces is tried first, then shorter ones
RECURSIVE ImportSpaces(_, _, _, _)
ImportSpaces(line, i, n, mod) ==
    IF n < 1 THEN {}
    ELSE IF ImportAt(line, i, n, mod) # {} THEN ImportAt(line, i, n, mod)
    ELSE ImportSpaces(line, i, n - 1, mod)

\* '.*' is greedy: it first takes the whole line and gives characters back
\* one at a time; skip is the number of characters '.*' holds
RECURSIVE ImportBacktrack(_, _, _)
ImportBacktrack(line, skip, mod) ==
    IF skip < 0 THEN {}
    ELSE LET i  == skip + 1
             hi == RunEnd(line, i + 6, SpaceChars) - (i + 5)
             r  == ImportSpaces(line, i, hi, mod)
         IN  IF r # {} THEN r ELSE ImportBacktrack(line, skip - 1, mod)

\* the pattern without its leading '.*': 'import' only at the line start
import_matcher_anchored(line, mod) ==
    ImportBacktrack(line, 0, mod)

\* import_matcher.match(line): {match.group(1)} on a match, {} on None
import_matcher(line, mod) ==
    ImportBacktrack(line, Len(line), mod)

\* framework_matcher.match(entry), '([A-Za-z_0-9.]+)\.framework': the group
\* is greedy and gives characters back until '.framework' follows it
RECURSIVE FrameworkBacktrack(_, _)
FrameworkBacktrack(entry, n) ==
    IF n < 1 THEN {}
    ELSE IF LiteralAt(entry, n + 1, <<".", "f", "r", "a", "m", "e", "w", "o", "r", "k">>)
         THEN {SubSeq(entry, 1, n)}
         ELSE FrameworkBacktrack(entry, n - 1)

framework_matcher(entry) ==
    FrameworkBacktrack(entry, RunEnd(entry, 1, NameChars))

----------------------------------------------------------------------------
(* The environment: what the command line and the external tools may give. *)

\* SDK identifiers of the command line; 'macosx10.11' is a name xcrun knows
\* that has no entry in DEFAULT_TARGET_BASED_ON_SDK
SdkChoices ==
    { <<"m", "a", "c", "o", "s", "x">>, <<"w", "a", "t", "c", "h", "o", "s">>, <<"w", "a", "t", "c", "h", "o", "s", ".", "s", "i", "m", "u", "l", "a", "t", "o", "r">>, <<"m", "a", "c", "o", "s", "x", "1", "0", ".", "1", "1">> }

ModuleChoices == { << >>, <<"F", "o", "o">> }

TargetChoices == { "", "x86_64-apple-macosx10.10" }

ExitCodes == {0, 1}

\* os.listdir(frameworks_dir)
Listings ==
    { { <<"R", "E", "A", "D", "M", "E">>, <<"S", "y", "s", "t", "e", "m", ".", "f", "r", "a", "m", "e", "w", "o", "r", "k">> },
      { <<"F", "o", "o", ".", "f", "r", "a", "m", "e", "w", "o", "r", "k">>, <<"S", "y", "s", "t", "e", "m", ".", "f", "r", "a", "m", "e", "w", "o", "r", "k">> },
      { <<"F", "o", "o", ".", "f", "r", "a", "m", "e", "w", "o", "r", "k">>, <<"B", "a", "r", ".", "f", "r", "a", "m", "e", "w", "o", "r", "k">>, <<"F", "o", "o", ".", "f", "r", "a", "m", "e", "w", "o", "r", "k", ".", "o", "l", "d">> } }

\* what 'xcrun --show-sdk-path -sdk <sdk>' prints, stripped
SdkPath(sdk) == <<"/", "S", "D", "K", "s", "/">> \o sdk

\* args.output_dir
OutputDir == <<"o", "u", "t">>

\* what 'swift-ide-test -module-print-submodules' may print for a module
ToolOutputs(mod) ==
    { << >>,
      << <<"i", "m", "p", "o", "r", "t", " ">> \o mod \o <<".", "S", "u", "b">> >>,
      << <<"i", "m", "p", "o", "r", "t", " ">> \o mod \o <<".">> \o mod,
         <<"i", "m", "p", "o", "r", "t", " ">> \o mod \o <<".", "S", "u", "b">>,
         <<"i", "m", "p", "o", "r", "t", " ">> \o mod \o <<".", "S", "u", "b">> >> }

----------------------------------------------------------------------------
(* Framework discovery and job building. *)

\* collect_frameworks(sdk), given the exit codes of the two xcrun queries
\* and the directory listing: the tuple it returns, () on a failed query
collect_frameworks(sdk, pathExit, versionExit, listing) ==
    IF pathExit # 0 THEN << >>
    ELSE IF versionExit # 0 THEN << >>
    ELSE LET frameworks ==
                 (UNION {framework_matcher(entry) : entry \in listing})
                     \ SKIPPED_FRAMEWORKS
         IN  << Sorted(frameworks), SdkPath(sdk) >>

\* the discovery calls collect_frameworks issues before it returns
DiscoveryCalls(pathExit, versionExit) ==
    IF pathExit # 0 THEN << "show-sdk-path" >>
    ELSE IF versionExit # 0 THEN << "show-sdk-path", "show-sdk-version" >>
    ELSE << "show-sdk-path", "show-sdk-version", "listdir" >>

\* a job tuple (cmd, extra_dump_args, output_dir, module, quiet); of cmd the
\* SDK root and the target are kept, extra_dump_args and quiet are the same
\* in every job of a run
JobTuple(sdk_root, sdk_target, sdk_output_dir, mod) ==
    [ sdk_root |-> sdk_root, target |-> sdk_target,
      output_dir |-> sdk_output_dir, module |-> mod ]

\* the job list with the test of 'if module:' left out: one job per
\* framework even when a module name is given
JobsForSdkPerFramework(sdk, frameworks, sdk_root, sdk_target) ==
    LET sdk_output_dir == OutputDir \o <<"/">> \o pretty_sdk_name(sdk)
    IN  [ k \in 1..Len(frameworks) |->
            JobTuple(sdk_root, sdk_target, sdk_output_dir, frameworks[k]) ]

\* lines 164-183 of create_dump_module_api_args, after the unpacking of
\* collect_frameworks' result and with the target resolved: the list results
JobsForSdk(sdk, frameworks, sdk_root, sdk_target) ==
    LET sdk_output_dir == OutputDir \o <<"/">> \o pretty_sdk_name(sdk)
    IN  IF module # << >>
        THEN << JobTuple(sdk_root, sdk_target, sdk_output_dir, module) >>
        ELSE [ k \in 1..Len(frameworks) |->
                 JobTuple(sdk_root, sdk_target, sdk_output_dir, frameworks[k]) ]

\* One iteration of the loop of lines 202-203: create_dump_module_api_args
\* for the next SDK. Unpacking () into (frameworks, sdk_root) raises
\* ValueError; DEFAULT_TARGET_BASED_ON_SDK[sdk] raises KeyError for an SDK
\* the table does not have. Neither is caught: main() ends there.
CreateDumpModuleApiArgs ==
    /\ mainPc = "build"
    /\ sdkIdx <= Len(sdks)
    /\ \E pathExit \in ExitCodes, versionExit \in ExitCodes, listing \in Listings :
          LET sdk == sdks[sdkIdx]
              cf  == collect_frameworks(sdk, pathExit, versionExit, listing)
          IN  /\ queries' = Append(queries,
                     [ calls |-> DiscoveryCalls(pathExit, versionExit),
                       listing |-> IF Len(cf) = 2 THEN listing ELSE {} ])
              /\ IF Len(cf) # 2
                 THEN /\ mainPc' = "crashed"
                      /\ error' = "ValueError"
                      /\ UNCHANGED <<sdkIdx, jobs, contrib>>
                 ELSE IF target = "" /\ ~HasDefaultTarget(sdk)
                 THEN /\ mainPc' = "crashed"
                      /\ error' = "KeyError"
                      /\ UNCHANGED <<sdkIdx, jobs, contrib>>
                 ELSE LET sdk_target == IF target # "" THEN target
                                        ELSE DefaultTarget(sdk)
                          results == JobsForSdk(sdk, cf[1], cf[2], sdk_target)
                      IN  /\ jobs' = jobs \o results
                          /\ contrib' = Append(contrib, Len(results))
                          /\ sdkIdx' = sdkIdx + 1
                          /\ UNCHANGED <<mainPc, error>>
    /\ UNCHANGED <<cmdVars, poolVars, jobVars, parseVars>>

----------------------------------------------------------------------------
(* The dispatcher: multiprocessing.Pool(processes).map(dump_module_api, jobs) *)

\* Pool.map_async: chunksize, extra = divmod(len(iterable), len(pool) * 4);
\* if extra: chunksize += 1; an empty iterable has chunksize 0
ChunkSize(n, p) ==
    IF n = 0 THEN 0
    ELSE (n \div (4 * p)) + (IF n % (4 * p) # 0 THEN 1 ELSE 0)

\* the number of chunks without the one for the remainder
NumberOfFullChunks(n, p) ==
    IF ChunkSize(n, p) = 0 THEN 0 ELSE n \div ChunkSize(n, p)

\* MapResult._number_left: length // chunksize + bool(length % chunksize)
NumberOfChunks(n, p) ==
    IF ChunkSize(n, p) = 0 THEN 0
    ELSE (n \div ChunkSize(n, p)) + (IF n % ChunkSize(n, p) # 0 THEN 1 ELSE 0)

\* Pool._get_tasks: the job indices of chunk k
Chunk(n, p, k) ==
    LET cs == ChunkSize(n, p)
        lo == (k - 1) * cs + 1
        hi == IF k * cs < n THEN k * cs ELSE n
    IN  [ i \in 1..(hi - lo + 1) |-> lo + i - 1 ]

IdleWorker == [ pc |-> "idle", task |-> 0, pos |-> 0, todo |-> << >> ]

FreshJob ==
    [ started |-> 0, finished |-> 0, opened |-> << >>,
      listFailed |-> FALSE, failed |-> FALSE, raised |-> "" ]

\* Lines 206-207 when the loop over the SDKs is over: the pool is created
\* and map() queues the chunks; main() then waits in map().
PoolMap ==
    /\ mainPc = "build"
    /\ sdkIdx > Len(sdks)
    /\ mainPc' = "map"
    /\ tasks' = [ k \in 1..NumberOfChunks(Len(jobs), processes) |->
                    Chunk(Len(jobs), processes, k) ]
    /\ nextTask' = 1
    /\ numberLeft' = NumberOfChunks(Len(jobs), processes)
    /\ mapFailed' = FALSE
    /\ workers' = [ w \in 1..processes |-> IdleWorker ]
    /\ jobState' = [ j \in 1..Len(jobs) |-> FreshJob ]
    /\ UNCHANGED <<cmdVars, sdkIdx, jobs, contrib, queries, error,
                   anomaliesLeft, parseVars>>

\* a pool worker takes the next chunk off the task queue
TakeTask(w) ==
    /\ mainPc = "map"
    /\ workers[w].pc = "idle"
    /\ nextTask <= Len(tasks)
    /\ workers' = [workers EXCEPT ![w] =
                      [ pc |-> "collect", task |-> nextTask, pos |-> 1,
                        todo |-> << >> ]]
    /\ nextTask' = nextTask + 1
    /\ UNCHANGED <<cmdVars, mainVars, tasks, numberLeft, mapFailed, jobVars,
                   parseVars>>

\* the job worker w is executing
JobOf(w) == tasks[workers[w].task][workers[w].pos]

\* dump_module_api returned in worker w: mapstar goes on with the next job
\* of the chunk, or the chunk is done and its result is reported.
\* MapResult._set counts a chunk only while the map has not failed.
AfterJob(w) ==
    IF workers[w].pos < Len(tasks[workers[w].task])
    THEN /\ workers' = [workers EXCEPT ![w] =
                           [ pc |-> "collect", task |-> workers[w].task,
                             pos |-> workers[w].pos + 1, todo |-> << >> ]]
         /\ UNCHANGED <<numberLeft, mapFailed>>
    ELSE /\ workers' = [workers EXCEPT ![w] = IdleWorker]
         /\ numberLeft' = IF mapFailed THEN numberLeft ELSE numberLeft - 1
         /\ UNCHANGED mapFailed

\* dump_module_api raised in worker w: map() inside mapstar stops at the
\* exception, so the rest of the chunk is not run; the failure is reported
AfterRaise(w) ==
    /\ workers' = [workers EXCEPT ![w] = IdleWorker]
    /\ mapFailed' = TRUE
    /\ UNCHANGED numberLeft

\* an external command counts against the budget of misbehaving commands
Budget(anomalous) ==
    /\ anomalous => anomaliesLeft > 0
    /\ anomaliesLeft' = IF anomalous THEN anomaliesLeft - 1 ELSE anomaliesLeft

----------------------------------------------------------------------------
(* The dump worker: dump_module_api and what it calls. *)

\* how an external command ends
CommandOutcomes == {"exit 0", "exit 1", "never exits"}

ExitCode(outcome) == IF outcome = "exit 0" THEN 0 ELSE 1

\* collect_submodules without the test of the exit code
collect_submodules_unchecked(exitcode, out, mod) ==
    Sorted(UNION {import_matcher(out[i], mod) : i \in DOMAIN out})

\* collect_submodules(common_args, module), given the exit code and the
\* output of the tool
collect_submodules(exitcode, out, mod) ==
    IF exitcode # 0 THEN << >>
    ELSE Sorted(UNION {import_matcher(out[i], mod) : i \in DOMAIN out})

\* '%s/%s/%s.swift' % (output_dir, module, name)
OutputFile(output_dir, mod, name) ==
    output_dir \o <<"/">> \o mod \o <<"/">> \o name \o <<".", "s", "w", "i", "f", "t">>

\* the same with subprocess.check_call, which raises on a non-zero exit
output_command_result_checked(opened, filename, exitcode) ==
    [ opened |-> Append(opened, filename),
      raised |-> IF exitcode # 0 THEN "CalledProcessError" ELSE "" ]

\* output_command_result_to_file(command_args, filename) for a command that
\* exits: the file is opened for writing before the command runs, and
\* subprocess.call returns the exit code, which is dropped
output_command_result_to_file(opened, filename, exitcode) ==
    [ opened |-> Append(opened, filename), raised |-> "" ]

\* lines 95 and 74-90: the worker runs the submodule listing of its job
RunCollectSubmodules(w) ==
    /\ mainPc = "map"
    /\ workers[w].pc = "collect"
    /\ \E outcome \in CommandOutcomes, out \in ToolOutputs(jobs[JobOf(w)].module) :
          LET j == JobOf(w)
              exitcode == ExitCode(outcome)
          IN  /\ Budget(outcome # "exit 0" \/ out # << >>)
              /\ IF outcome = "never exits"
                 THEN /\ workers' = [workers EXCEPT ![w].pc = "wedged"]
                      /\ jobState' = [jobState EXCEPT ![j].started = @ + 1]
                 ELSE /\ workers' = [workers EXCEPT
                             ![w].pc = "top",
                             ![w].todo = collect_submodules(exitcode, out,
                                                            jobs[j].module)]
                      /\ jobState' = [jobState EXCEPT
                             ![j].started = @ + 1,
                             ![j].listFailed = (exitcode # 0),
                             ![j].failed = (exitcode # 0)]
    /\ UNCHANGED <<cmdVars, mainVars, tasks, nextTask, numberLeft, mapFailed,
                   parseVars>>

\* lines 98-104: mkdir -p, then the dump of the top-level module. When
\* mkdir failed there is no directory and open() raises IOError.
DumpTopLevel(w) ==
    /\ mainPc = "map"
    /\ workers[w].pc = "top"
    /\ \E mkdirExit \in ExitCodes, outcome \in CommandOutcomes :
          LET j == JobOf(w)
              output_file == OutputFile(jobs[j].output_dir, jobs[j].module,
                                        jobs[j].module)
              r == output_command_result_to_file(jobState[j].opened,
                                                 output_file, ExitCode(outcome))
          IN  /\ Budget(mkdirExit # 0 \/ outcome # "exit 0")
              /\ IF mkdirExit # 0
                 THEN /\ AfterRaise(w)
                      /\ jobState' = [jobState EXCEPT ![j].raised = "IOError"]
                 ELSE IF outcome = "never exits"
                 THEN /\ workers' = [workers EXCEPT ![w].pc = "wedged"]
                      /\ jobState' = [jobState EXCEPT ![j].opened = r.opened]
                      /\ UNCHANGED <<numberLeft, mapFailed>>
                 ELSE IF r.raised # ""
                 THEN /\ AfterRaise(w)
                      /\ jobState' = [jobState EXCEPT
                             ![j].opened = r.opened,
                             ![j].failed = @ \/ ExitCode(outcome) # 0,
                             ![j].raised = r.raised]
                 ELSE IF workers[w].todo = << >>
                 THEN /\ AfterJob(w)
                      /\ jobState' = [jobState EXCEPT
                             ![j].opened = r.opened,
                             ![j].failed = @ \/ ExitCode(outcome) # 0,
                             ![j].finished = @ + 1]
                 ELSE /\ workers' = [workers EXCEPT ![w].pc = "sub"]
                      /\ jobState' = [jobState EXCEPT
                             ![j].opened = r.opened,
                             ![j].failed = @ \/ ExitCode(outcome) # 0]
                      /\ UNCHANGED <<numberLeft, mapFailed>>
    /\ UNCHANGED <<cmdVars, mainVars, tasks, nextTask, parseVars>>

\* lines 107-115: the dump of the next submodule of the job
DumpSubmodule(w) ==
    /\ mainPc = "map"
    /\ workers[w].pc = "sub"
    /\ \E outcome \in CommandOutcomes :
          LET j == JobOf(w)
              submodule == Head(workers[w].todo)
              output_file == OutputFile(jobs[j].output_dir, jobs[j].module,
                                        submodule)
              r == output_command_result_to_file(jobState[j].opened,
                                                 output_file, ExitCode(outcome))
          IN  /\ Budget(outcome # "exit 0")
              /\ IF outcome = "never exits"
                 THEN /\ workers' = [workers EXCEPT ![w].pc = "wedged"]
                      /\ jobState' = [jobState EXCEPT ![j].opened = r.opened]
                      /\ UNCHANGED <<numberLeft, mapFailed>>
                 ELSE IF r.raised # ""
                 THEN /\ AfterRaise(w)
                      /\ jobState' = [jobState EXCEPT
                             ![j].opened = r.opened,
                             ![j].failed = @ \/ ExitCode(outcome) # 0,
                             ![j].raised = r.raised]
                 ELSE IF Tail(workers[w].todo) = << >>
                 THEN /\ AfterJob(w)
                      /\ jobState' = [jobState EXCEPT
                             ![j].opened = r.opened,
                             ![j].failed = @ \/ ExitCode(outcome) # 0,
                             ![j].finished = @ + 1]
                 ELSE /\ workers' = [workers EXCEPT ![w].todo = Tail(@)]
                      /\ jobState' = [jobState EXCEPT
                             ![j].opened = r.opened,
                             ![j].failed = @ \/ ExitCode(outcome) # 0]
                      /\ UNCHANGED <<numberLeft, mapFailed>>
    /\ UNCHANGED <<cmdVars, mainVars, tasks, nextTask, parseVars>>

\* pool.map returns once every chunk has reported; main() removes the
\* source file and ends
MapReturn ==
    /\ mainPc = "map"
    /\ ~mapFailed
    /\ numberLeft = 0
    /\ mainPc' = "done"
    /\ UNCHANGED <<cmdVars, sdkIdx, jobs, contrib, queries, error, poolVars,
                   jobVars, parseVars>>

\* pool.map re-raises the exception of a chunk as soon as it is reported,
\* whatever the other workers are doing; main() ends with it and the pool's
\* daemon workers end with main()
MapRaise ==
    /\ mainPc = "map"
    /\ mapFailed
    /\ mainPc' = "crashed"
    /\ error' = "IOError"
    /\ UNCHANGED <<cmdVars, sdkIdx, jobs, contrib, queries, poolVars,
                   jobVars, parseVars>>

----------------------------------------------------------------------------
(* collect_submodules' loop, one line of the tool's output at a time. *)

\* lines of output the tool may print
ParseLines ==
    { prefix \o <<"i", "m", "p", "o", "r", "t">> \o ws \o m \o tail :
        prefix \in { << >>, <<"@", "x", " ">> },
        ws \in { << >>, <<" ">>, <<"\t", " ">> },
        m \in { <<"F", "o", "o">>, <<"B", "a", "r">>, <<"F", ".", "o">> },
        tail \in { << >>, <<".">>, <<".", "A">>, <<".", "A", ".", "B", ";">>, <<".", "F", "o", "o">>, <<".", "B", " ", "i", "m", "p", "o", "r", "t", " ", "F", "o", "o", ".", "A">> } }
    \cup { << >>, <<"#">> }

ParseModules == { <<"F", "o", "o">>, <<"F", ".", "o">> }

\* lines 76-80: the tool has run
ParseRunCommand ==
    /\ pPc = "run"
    /\ \E exitcode \in ExitCodes :
          IF exitcode # 0
          THEN /\ pPc' = "done"
               /\ pResult' = << >>
          ELSE /\ pPc' = "loop"
               /\ UNCHANGED pResult
    /\ UNCHANGED <<cmdVars, mainVars, poolVars, jobVars, pModule, pLine,
                   pCount, pSubmodules>>

\* lines 85-88: one iteration of the loop over out.splitlines()
ParseLine ==
    /\ pPc = "loop"
    /\ pCount < MaxLines
    /\ \E line \in ParseLines :
          /\ pLine' = line
          /\ pSubmodules' = pSubmodules \cup import_matcher(line, pModule)
    /\ pCount' = pCount + 1
    /\ UNCHANGED <<cmdVars, mainVars, poolVars, jobVars, pPc, pModule, pResult>>

\* line 90, after the last line
ParseReturn ==
    /\ pPc = "loop"
    /\ pPc' = "done"
    /\ pResult' = Sorted(pSubmodules)
    /\ UNCHANGED <<cmdVars, mainVars, poolVars, jobVars, pModule, pLine,
                   pCount, pSubmodules>>

----------------------------------------------------------------------------
(* Specifications. *)

ParseOff ==
    /\ pPc = "off"
    /\ pModule = << >>
    /\ pLine = << >>
    /\ pCount = 0
    /\ pSubmodules = {}
    /\ pResult = << >>

PoolOff ==
    /\ tasks = << >>
    /\ nextTask = 0
    /\ numberLeft = 0
    /\ mapFailed = FALSE
    /\ workers = << >>
    /\ jobState = << >>

\* a run of main() from the parsed command line
Init ==
    /\ sdks \in UNION { [1..n -> SdkChoices] : n \in 1..MaxSdks }
    /\ module \in ModuleChoices
    /\ target \in TargetChoices
    /\ processes \in 1..MaxProcesses
    /\ mainPc = "build"
    /\ sdkIdx = 1
    /\ jobs = << >>
    /\ contrib = << >>
    /\ queries = << >>
    /\ error = ""
    /\ PoolOff
    /\ anomaliesLeft = MaxAnomalies
    /\ ParseOff

Next ==
    \/ CreateDumpModuleApiArgs
    \/ PoolMap
    \/ \E w \in DOMAIN workers : TakeTask(w)
    \/ \E w \in DOMAIN workers : RunCollectSubmodules(w)
    \/ \E w \in DOMAIN workers : DumpTopLevel(w)
    \/ \E w \in DOMAIN workers : DumpSubmodule(w)
    \/ MapReturn
    \/ MapRaise

Spec == Init /\ [][Next]_vars

\* job building alone: main() up to the creation of the pool
NextBuild ==
    \/ CreateDumpModuleApiArgs
    \/ PoolMap

SpecBuild == Init /\ [][NextBuild]_vars

\* the decimal numeral of k
RECURSIVE Numeral(_)
Numeral(k) ==
    IF k < 10 THEN << Chars[7 + k] >>
    ELSE Numeral(k \div 10) \o << Chars[7 + (k % 10)] >>

\* main() at line 205 of a run '-s macosx' whose framework directory holds
\* the n frameworks F1 .. Fn
AtDispatch(n, p) ==
    /\ sdks = << <<"m", "a", "c", "o", "s", "x">> >>
    /\ module = << >>
    /\ target = ""
    /\ processes = p
    /\ mainPc = "build"
    /\ sdkIdx = 2
    /\ jobs = JobsForSdk(<<"m", "a", "c", "o", "s", "x">>, [ k \in 1..n |-> <<"F">> \o Numeral(k) ],
                         SdkPath(<<"m", "a", "c", "o", "s", "x">>), DefaultTarget(<<"m", "a", "c", "o", "s", "x">>))
    /\ contrib = << n >>
    /\ queries = << [ calls |-> DiscoveryCalls(0, 0),
                      listing |-> { <<"F">> \o Numeral(k) \o <<".", "f", "r", "a", "m", "e", "w", "o", "r", "k">> :
                                      k \in 1..n } ] >>
    /\ error = ""
    /\ PoolOff
    /\ anomaliesLeft = MaxAnomalies
    /\ ParseOff

InitDispatch ==
    \E n \in 0..MaxJobs, p \in 1..MaxProcesses : AtDispatch(n, p)

NextDispatch ==
    \/ PoolMap
    \/ \E w \in DOMAIN workers : TakeTask(w)
    \/ \E w \in DOMAIN workers : RunCollectSubmodules(w)
    \/ \E w \in DOMAIN workers : DumpTopLevel(w)
    \/ \E w \in DOMAIN workers : DumpSubmodule(w)
    \/ MapReturn
    \/ MapRaise

SpecDispatch == InitDispatch /\ [][NextDispatch]_vars

InitPool == AtDispatch(PoolJobs, PoolProcesses)

SpecPool == InitPool /\ [][NextDispatch]_vars

InitParse ==
    /\ sdks = << >>
    /\ module = << >>
    /\ target = ""
    /\ processes = 1
    /\ mainPc = "off"
    /\ sdkIdx = 1
    /\ jobs = << >>
    /\ contrib = << >>
    /\ queries = << >>
    /\ error = ""
    /\ PoolOff
    /\ anomaliesLeft = 0
    /\ pPc = "run"
    /\ pModule \in ParseModules
    /\ pLine = << >>
    /\ pCount = 0
    /\ pSubmodules = {}
    /\ pResult = << >>

NextParse ==
    \/ ParseRunCommand
    \/ ParseLine
    \/ ParseReturn

SpecParse == InitParse /\ [][NextParse]_vars

----------------------------------------------------------------------------
(* Vocabulary of the properties. *)

Range(s) == { s[i] : i \in DOMAIN s }

\* the top-level output file of job j
TopFile(j) ==
    OutputFile(jobs[j].output_dir, jobs[j].module, jobs[j].module)

\* the worker that holds job j: j is the job it is executing
Holds(w, j) ==
    workers[w].task # 0 /\ JobOf(w) = j

\* job j has not been dropped: until it has started it is in a chunk still
\* on the queue or in a chunk a worker has not gone past it in, and while
\* it runs a worker is executing it
NotSkipped(j) ==
    /\ jobState[j].started = 0 =>
          \E t \in DOMAIN tasks : \E i \in DOMAIN tasks[t] :
             /\ tasks[t][i] = j
             /\ \/ t >= nextTask
                \/ \E w \in DOMAIN workers :
                      workers[w].task = t /\ workers[w].pos <= i
    /\ (jobState[j].started = 1 /\ jobState[j].finished = 0
          /\ jobState[j].raised = "") =>
          \E w \in DOMAIN workers : Holds(w, j)

\* no open() failed for want of the output directory
NoOpenFailed ==
    \A j \in DOMAIN jobState : jobState[j].raised # "IOError"

RECURSIVE SumTo(_, _)
SumTo(s, i) == IF i = 0 THEN 0 ELSE s[i] + SumTo(s, i - 1)

\* the indices in jobs of the jobs SDK number i contributed
JobsOfSdk(i) == (SumTo(contrib, i - 1) + 1)..SumTo(contrib, i)

\* seq lists the names of the set in strictly increasing order
IsSortedListOf(seq, names) ==
    /\ Range(seq) = names
    /\ \A a \in DOMAIN seq : \A b \in DOMAIN seq :
          a < b => StrLess(seq[a], seq[b])

\* the longest run of name characters that starts at position d of line
NameFrom(line, d) ==
    { SubSeq(line, d, e) : e \in
        { e \in d..Len(line) :
            /\ \A k \in d..e : line[k] \in NameChars
            /\ e = Len(line) \/ line[e + 1] \notin NameChars } }

----------------------------------------------------------------------------
(* C1 *)

\* C1: the dispatch returns only after every job of the list has been
\* executed, and no job is ever executed twice: a job is started and
\* finished at most once, and when pool.map has returned every job has been
\* started once and has finished once.
C1_MapReturnsAfterEveryJobOnce ==
    /\ \A j \in DOMAIN jobState :
          jobState[j].started <= 1 /\ jobState[j].finished <= jobState[j].started
    /\ mainPc = "done" =>
          /\ DOMAIN jobState = DOMAIN jobs
          /\ \A j \in DOMAIN jobs :
                jobState[j].started = 1 /\ jobState[j].finished = 1

\* pool.map has returned for a job list that was cut into chunks of more
\* than one job
C1_Witness ==
    /\ mainPc = "done"
    /\ \E t \in DOMAIN tasks : Len(tasks[t]) > 1
    /\ Len(tasks) > 1

----------------------------------------------------------------------------
(* C2 *)

----------------------------------------------------------------------------
(* C6 *)

\* C6: a job whose submodule listing exited non-zero goes on to its
\* top-level dump with no submodule to dump; it opens no file but
\* <module_dir>/<module>.swift, and when it has finished it has opened
\* exactly that one file.
C6_ListingFailureLeavesTopLevelOnly ==
    \A j \in DOMAIN jobState :
       jobState[j].listFailed =>
          /\ jobState[j].opened \in { << >>, << TopFile(j) >> }
          /\ jobState[j].finished = 1 => jobState[j].opened = << TopFile(j) >>
          /\ (jobState[j].finished = 0 /\ jobState[j].raised = "") =>
                \E w \in DOMAIN workers :
                   /\ Holds(w, j)
                   /\ workers[w].todo = << >>
                   /\ \/ workers[w].pc = "top" /\ jobState[j].opened = << >>
                      \/ workers[w].pc = "wedged"
                            /\ jobState[j].opened = << TopFile(j) >>

\* a job whose submodule listing failed has finished
C6_Witness ==
    \E j \in DOMAIN jobState :
       jobState[j].listFailed /\ jobState[j].finished = 1

----------------------------------------------------------------------------
(* C10 *)

\* C10: within one job the dumps write to pairwise distinct files: no job
\* opens the same output path twice.
C10_DumpsOfAJobAreDistinctFiles ==
    \A j \in DOMAIN jobState :
       \A a \in DOMAIN jobState[j].opened : \A b \in DOMAIN jobState[j].opened :
          a # b => jobState[j].opened[a] # jobState[j].opened[b]

----------------------------------------------------------------------------
(* C7 *)

\* C7: with two or more workers, when the external process of one job never
\* exits and every other process exits, every other job is executed: once
\* the task queue is empty and every worker but the wedged one is idle,
\* every job but the wedged one has finished.
C7_WedgeStallsOneJobOnly ==
    LET wedged == { w \in DOMAIN workers : workers[w].pc = "wedged" }
    IN  ( /\ mainPc = "map"
          /\ processes >= 2
          /\ Cardinality(wedged) = 1
          /\ NoOpenFailed
          /\ nextTask > Len(tasks)
          /\ \A w \in DOMAIN workers \ wedged : workers[w].pc = "idle" )
        => \A j \in DOMAIN jobState :
              (\A w \in wedged : ~Holds(w, j)) => jobState[j].finished = 1

----------------------------------------------------------------------------
(* C3 *)

\* C3: when an SDK-info query of an SDK exits non-zero, the SDK contributes
\* zero jobs and main() goes on: it does not end with an exception.
C3_DiscoveryFailureDegrades ==
    \A i \in DOMAIN queries :
       queries[i].calls # DiscoveryCalls(0, 0) =>
          /\ mainPc # "crashed"
          /\ i \in DOMAIN contrib
          /\ contrib[i] = 0

----------------------------------------------------------------------------
(* C4 *)

\* C4: an SDK without an entry in the table, given with no explicit target,
\* cancels its own jobs only: when main() has ended on the missing entry,
\* every SDK of the list that has an entry has had its jobs built and
\* executed.
C4_UnmappedSdkCancelsOnlyItsJobs ==
    (mainPc = "crashed" /\ error = "KeyError") =>
       \A i \in DOMAIN sdks :
          HasDefaultTarget(sdks[i]) =>
             /\ i \in DOMAIN contrib
             /\ \A j \in JobsOfSdk(i) :
                   j \in DOMAIN jobState /\ jobState[j].finished = 1

----------------------------------------------------------------------------
(* C5 *)

\* C5: in a run over pairwise distinct SDK identifiers no two jobs write
\* the same output file path.
C5_NoTwoJobsWriteTheSameFile ==
    (\A a \in DOMAIN sdks : \A b \in DOMAIN sdks : a # b => sdks[a] # sdks[b])
    => \A j \in DOMAIN jobState : \A k \in DOMAIN jobState :
          j # k => Range(jobState[j].opened) \cap Range(jobState[k].opened) = {}

----------------------------------------------------------------------------
(* C8 *)

\* the framework names of a directory listing: of each entry, the longest
\* prefix of name characters that '.framework' follows, deny-listed names
\* left out
DiscoveredFrameworks(listing) ==
    { SubSeq(e[1], 1, e[2]) : e \in
        { e \in UNION { { <<entry, n>> : n \in 1..Len(entry) } :
                         entry \in listing } :
            /\ \A k \in 1..e[2] : e[1][k] \in NameChars
            /\ LiteralAt(e[1], e[2] + 1, <<".", "f", "r", "a", "m", "e", "w", "o", "r", "k">>)
            /\ ~ \E m \in (e[2] + 1)..Len(e[1]) :
                  /\ \A k \in 1..m : e[1][k] \in NameChars
                  /\ LiteralAt(e[1], m + 1, <<".", "f", "r", "a", "m", "e", "w", "o", "r", "k">>) } }
    \ SKIPPED_FRAMEWORKS

\* C8 as stated: with an explicit module name no discovery call is issued
\* and every SDK handled contributes exactly one job, for that module;
\* without one it contributes one job per discovered, non-deny-listed
\* framework.
C8_ExplicitModuleSkipsDiscovery ==
    /\ module # << >> => \A i \in DOMAIN queries : queries[i].calls = << >>
    /\ \A i \in DOMAIN contrib :
          IF module # << >>
          THEN contrib[i] = 1 /\ \A j \in JobsOfSdk(i) : jobs[j].module = module
          ELSE /\ contrib[i] = Cardinality(DiscoveredFrameworks(queries[i].listing))
               /\ { jobs[j].module : j \in JobsOfSdk(i) }
                     = DiscoveredFrameworks(queries[i].listing)

\* C8 amended: discovery is not skipped. Every SDK handled has had both
\* SDK-info queries and the directory listing issued, with or without an
\* explicit module name; with one it contributes exactly one job, for that
\* module name, whatever was discovered; without one it contributes exactly
\* one job per discovered, non-deny-listed framework.
C8_ExplicitModuleOneJobAfterDiscovery ==
    \A i \in DOMAIN contrib :
       /\ queries[i].calls = << "show-sdk-path", "show-sdk-version", "listdir" >>
       /\ IF module # << >>
          THEN contrib[i] = 1 /\ \A j \in JobsOfSdk(i) : jobs[j].module = module
          ELSE /\ contrib[i] = Cardinality(DiscoveredFrameworks(queries[i].listing))
               /\ { jobs[j].module : j \in JobsOfSdk(i) }
                     = DiscoveredFrameworks(queries[i].listing)

\* with an explicit module name, an SDK whose listing holds two frameworks
\* has contributed its one job, and another SDK without explicit module two
C8_Witness ==
    /\ module # << >>
    /\ \E i \in DOMAIN contrib :
          /\ Cardinality(DiscoveredFrameworks(queries[i].listing)) = 2
          /\ contrib[i] = 1

----------------------------------------------------------------------------
(* C9 *)

\* the names of the lines that start with 'import M.N': 'import' at the
\* start of the line, whitespace, the module name itself, a '.', and N
AnchoredNames(line, mod) ==
    UNION { NameFrom(line, 7 + n + Len(mod) + 1) : n \in
              { n \in 1..Len(line) :
                  /\ LiteralAt(line, 1, <<"i", "m", "p", "o", "r", "t">>)
                  /\ \A k \in 7..(6 + n) : k <= Len(line) /\ line[k] \in SpaceChars
                  /\ LiteralAt(line, 7 + n, mod)
                  /\ LiteralAt(line, 7 + n + Len(mod), <<".">>) } }

\* C9 as stated: each line read adds exactly the names of AnchoredNames, and
\* what is returned lists the collected names sorted, each once.
C9_AnchoredExtraction ==
    [][ /\ pCount' # pCount =>
              pSubmodules' = pSubmodules \cup AnchoredNames(pLine', pModule)
        /\ (pPc = "loop" /\ pPc' = "done") =>
              IsSortedListOf(pResult', pSubmodules) ]_vars

\* the places <<i, n>> of a line where 'import' stands at position i,
\* followed by n whitespace characters, by the module name with each of its
\* '.' standing for any character, by a '.' and by a name character
ImportPlaces(line, mod) ==
    { p \in (1..Len(line)) \X (1..Len(line)) :
        LET i == p[1]
            n == p[2]
            d == i + 6 + n + Len(mod)
        IN  /\ d + 1 <= Len(line)
            /\ LiteralAt(line, i, <<"i", "m", "p", "o", "r", "t">>)
            /\ \A k \in (i + 6)..(i + 5 + n) : line[k] \in SpaceChars
            /\ \A k \in 1..Len(mod) :
                  mod[k] = "." \/ mod[k] = line[i + 5 + n + k]
            /\ line[d] = "."
            /\ line[d + 1] \in NameChars }

\* the name of the last such place of the line (the rightmost 'import', and
\* for it the longest whitespace): the longest run of name characters
\* after the '.'
ContainedNames(line, mod) ==
    UNION { NameFrom(line, p[1] + 6 + p[2] + Len(mod) + 1) : p \in
              { p \in ImportPlaces(line, mod) :
                  \A q \in ImportPlaces(line, mod) :
                     q[1] < p[1] \/ (q[1] = p[1] /\ q[2] <= p[2]) } }

\* C9 amended: the match is not anchored at the start of the line and the
\* '.' of a module name matches any character. Each line read adds exactly
\* the name of ContainedNames (none when the line has no such place), and
\* what is returned lists the collected names sorted, each once.
C9_UnanchoredExtraction ==
    [][ /\ pCount' # pCount =>
              pSubmodules' = pSubmodules \cup ContainedNames(pLine', pModule)
        /\ (pPc = "loop" /\ pPc' = "done") =>
              IsSortedListOf(pResult', pSubmodules) ]_vars

\* two names have been returned, the last line read has text before
\* 'import' and its name is among them
C9_Witness ==
    /\ pPc = "done"
    /\ Len(pResult) >= 2
    /\ StartsWith(pLine, <<"@", "x", " ">>)
    /\ ContainedNames(pLine, pModule) # {}
    /\ ContainedNames(pLine, pModule) \subseteq Range(pResult)

====
